---- MODULE Spec2Model ----
(***************************************************************************)
(* Model of the derive macro `Expect` (src/lib.rs, expect_derive) and of   *)
(* the methods it generates.  Identifiers are sequences of characters so   *)
(* that lowercasing and prefixing are computed, not assumed.  The          *)
(* generated methods are kept as structured token records and are          *)
(* interpreted with Rust's scoping rules: a pattern binding shadows a      *)
(* method parameter of the same name inside the match arm and its guard.   *)
(***************************************************************************)
EXTENDS Naturals, Sequences, FiniteSets

VARIABLES derive_input, pc, tokens, panic_message, self, call_method, call_args, result

vars == <<derive_input, pc, tokens, panic_message, self, call_method, call_args, result>>

(* ------------------------------ bounds --------------------------------- *)

MaxVariants == 2

MaxFields == 2

(* --------------------------- text literals ----------------------------- *)

LowerCase == <<"a", "b", "c", "d", "e", "f", "g", "h", "i", "j", "k", "l", "m", "n", "o", "p", "q", "r", "s", "t", "u", "v", "w", "x", "y", "z">>

UpperCase == <<"A", "B", "C", "D", "E", "F", "G", "H", "I", "J", "K", "L", "M", "N", "O", "P", "Q", "R", "S", "T", "U", "V", "W", "X", "Y", "Z">>

Digits == <<"0", "1", "2", "3", "4", "5", "6", "7", "8", "9">>

ExpectPrefix == <<"e", "x", "p", "e", "c", "t", "_">>

AttrPrefix == <<"a", "t", "t", "r", "_">>

ValuePrefix == <<"v", "a", "l", "u", "e", "_">>

PanicIdent == <<"p", "a", "n", "i", "c">>

DocIdent == <<"d", "o", "c">>

NotEnumText == <<"E", "x", "p", "e", "c", "t", " ", "c", "a", "n", " ", "o", "n", "l", "y", " ", "b", "e", " ", "d", "e", "r", "i", "v", "e", "d", " ", "f", "o", "r", " ", "e", "n", "u", "m", "s">>

ExpectedText == <<"E", "x", "p", "e", "c", "t", "e", "d", " ">>

ButGotText == <<" ", "b", "u", "t", " ", "g", "o", "t", " ">>

Colon == <<":">>

I32 == <<"i", "3", "2">>

(* ------------------------------ inputs --------------------------------- *)

TypeIdents == { <<"F", "o", "o">>, <<"E", "x", "p", "e", "c", "t">> }

EnumIdents == { <<"F", "o", "o">> }

VariantIdents == { <<"B", "a", "r">>, <<"B", "A", "R">>, <<"Q", "u", "x">> }

FieldIdents == { <<"a">>, <<"A">>, <<"a", "t", "t", "r", "_", "a">> }

FieldTypes == { I32 }

AttrLists == { <<>>, <<DocIdent, PanicIdent>> }

Values == {1, 2}

Injective(s) == \A i, j \in 1..Len(s) : i # j => s[i] # s[j]

SeqsUpTo(S, n) == UNION { [1..k -> S] : k \in 0..n }

NamedFieldLists ==
    { [i \in 1..Len(ns) |-> [ident |-> ns[i], ty |-> tys[i]]] :
        <<ns, tys>> \in { p \in SeqsUpTo(FieldIdents, MaxFields) \X SeqsUpTo(FieldTypes, MaxFields) :
                            Len(p[1]) = Len(p[2]) /\ Injective(p[1]) } }

UnnamedFieldLists ==
    { [i \in 1..Len(tys) |-> [ident |-> <<>>, ty |-> tys[i]]] : tys \in SeqsUpTo(FieldTypes, MaxFields) }

FieldsOptions ==
    { [kind |-> "Named", members |-> l] : l \in NamedFieldLists }
      \cup { [kind |-> "Unnamed", members |-> l] : l \in UnnamedFieldLists }
      \cup { [kind |-> "Unit", members |-> <<>>] }

(* An enum's variants: each with its name, its attributes and its fields. *)
VariantList(ids, ats, fs) ==
    [i \in 1..Len(ids) |-> [ident |-> ids[i], attrs |-> ats[i], fields |-> fs[i]]]

EnumInput(n, variants) == [ident |-> n, data |-> [kind |-> "Enum", variants |-> variants]]

NotEnumInputs ==
    { [ident |-> n, data |-> [kind |-> "Struct", fields |-> f]] : n \in TypeIdents, f \in FieldsOptions }
      \cup { [ident |-> n, data |-> [kind |-> "Union", fields |-> [kind |-> "Named", members |-> l]]] :
                n \in TypeIdents, l \in NamedFieldLists \ {<<>>} }

(* ----------------------- string helpers of std ------------------------- *)

to_lowercase_char(c) ==
    IF \E i \in 1..Len(UpperCase) : UpperCase[i] = c
    THEN LowerCase[CHOOSE i \in 1..Len(UpperCase) : UpperCase[i] = c]
    ELSE c

to_lowercase(s) == [i \in 1..Len(s) |-> to_lowercase_char(s[i])]

RECURSIVE to_string(_)
to_string(n) ==
    IF n < 10 THEN <<Digits[n + 1]>>
    ELSE to_string(n \div 10) \o <<Digits[(n % 10) + 1]>>

(* `#(#items),*` : the items of a repetition; an empty token stream       *)
(* contributes no item (this is how the Unit placeholders disappear).     *)
Separated(items) == SelectSeq(items, LAMBDA t : t # <<>>)

(* ---------------------------- expect_derive ---------------------------- *)

(* Variant of is_panic that looks at the first attribute only.            *)
is_panic_first_attr(variant) ==
    Len(variant.attrs) > 0 /\ variant.attrs[1] = PanicIdent

is_panic(variant) ==
    \E i \in 1..Len(variant.attrs) : variant.attrs[i] = PanicIdent

(* Variant of fn_name that formats the enum's name, not the variant's.    *)
fn_name_of_type(name, variant_name) == ExpectPrefix \o to_lowercase(name)

fn_name(name, variant_name) == ExpectPrefix \o to_lowercase(variant_name)

NamedBinding(field_name) == AttrPrefix \o to_lowercase(field_name)

NamedArm(name, variant_name, named) ==
    LET args == [i \in 1..Len(named) |-> named[i].ident]
        fields_names == [i \in 1..Len(named) |-> <<NamedBinding(named[i].ident)>>]
    IN  [ fields |-> [i \in 1..Len(named) |-> <<named[i].ident, Colon, named[i].ty>>],
          fields_names |-> fields_names,
          fields_ty |-> [i \in 1..Len(named) |-> <<named[i].ty>>],
          pattern |-> [ path |-> <<name, variant_name>>,
                        kind |-> "Named",
                        binds |-> [i \in 1..Len(named) |-> [field |-> args[i], binding |-> fields_names[i][1]]],
                        has_if |-> TRUE,
                        guard |-> [i \in 1..Len(named) |-> [lhs |-> fields_names[i][1], rhs |-> args[i]]] ],
          new |-> [path |-> <<name, variant_name>>, kind |-> "Named", inits |-> args] ]

UnnamedParam(n) == ValuePrefix \o to_string(n)

UnnamedBinding(n) == AttrPrefix \o to_string(n)

UnnamedArm(name, variant_name, unnamed) ==
    LET names == [i \in 1..Len(unnamed) |-> UnnamedParam(i - 1)]
        fields_names == [i \in 1..Len(unnamed) |-> <<UnnamedBinding(i - 1)>>]
    IN  [ fields |-> [i \in 1..Len(unnamed) |-> <<names[i], Colon, unnamed[i].ty>>],
          fields_names |-> fields_names,
          fields_ty |-> [i \in 1..Len(unnamed) |-> <<unnamed[i].ty>>],
          pattern |-> [ path |-> <<name, variant_name>>,
                        kind |-> "Unnamed",
                        binds |-> [i \in 1..Len(unnamed) |-> [field |-> to_string(i - 1), binding |-> fields_names[i][1]]],
                        has_if |-> TRUE,
                        guard |-> [i \in 1..Len(unnamed) |-> [lhs |-> fields_names[i][1], rhs |-> names[i]]] ],
          new |-> [path |-> <<name, variant_name>>, kind |-> "Unnamed", inits |-> names] ]

UnitPattern(name, variant_name) ==
    [path |-> <<name, variant_name>>, kind |-> "Unit", binds |-> <<>>, has_if |-> FALSE, guard |-> <<>>]

UnitArm(name, variant_name) ==
    [ fields |-> << <<>> >>,
      fields_names |-> << <<>> >>,
      fields_ty |-> << <<>> >>,
      pattern |-> UnitPattern(name, variant_name),
      new |-> [path |-> <<name, variant_name>>, kind |-> "Unit", inits |-> <<>>] ]

FieldsArm(name, variant) ==
    CASE variant.fields.kind = "Named" -> NamedArm(name, variant.ident, variant.fields.members)
      [] variant.fields.kind = "Unnamed" -> UnnamedArm(name, variant.ident, variant.fields.members)
      [] variant.fields.kind = "Unit" -> UnitArm(name, variant.ident)

PanicMethod(method_name, arm) ==
    [ fn_name |-> method_name,
      params |-> Separated(arm.fields),
      ret_option |-> FALSE,
      ret_tuple |-> Separated(arm.fields_ty),
      pattern |-> arm.pattern,
      arm_some |-> FALSE,
      arm_tuple |-> [i \in 1..Len(Separated(arm.fields_names)) |-> Separated(arm.fields_names)[i][1]],
      panics |-> TRUE,
      new |-> arm.new ]

OptionMethod(method_name, arm) ==
    [ fn_name |-> method_name,
      params |-> Separated(arm.fields),
      ret_option |-> TRUE,
      ret_tuple |-> Separated(arm.fields_ty),
      pattern |-> arm.pattern,
      arm_some |-> TRUE,
      arm_tuple |-> [i \in 1..Len(Separated(arm.fields_names)) |-> Separated(arm.fields_names)[i][1]],
      panics |-> FALSE ]

VariantMethod(name, variant) ==
    IF is_panic(variant)
    THEN PanicMethod(fn_name(name, variant.ident), FieldsArm(name, variant))
    ELSE OptionMethod(fn_name(name, variant.ident), FieldsArm(name, variant))

(* Variant of the loop whose `continue` comes before the push.            *)
RECURSIVE VariantsLoopSkipPanic(_, _, _)
VariantsLoopSkipPanic(name, variants, methods) ==
    IF variants = <<>> THEN methods
    ELSE IF is_panic(Head(variants))
         THEN VariantsLoopSkipPanic(name, Tail(variants), methods)
         ELSE VariantsLoopSkipPanic(name, Tail(variants),
                                    Append(methods, VariantMethod(name, Head(variants))))

RECURSIVE VariantsLoop(_, _, _)
VariantsLoop(name, variants, methods) ==
    IF variants = <<>> THEN methods
    ELSE VariantsLoop(name, Tail(variants), Append(methods, VariantMethod(name, Head(variants))))

ImplBlock(name, methods) == [impl_for |-> name, methods |-> methods]

(* Variant of the failure message that appends the type's name.           *)
NotEnumMessageNamingType(name) == NotEnumText \o <<":", " ">> \o name

NotEnumMessage(name) == NotEnumText

(* Variant of the non-enum arm that falls through to an empty impl block. *)
NotEnumTokensEmptyImpl(name) == <<ImplBlock(name, <<>>)>>

(* What the derive hands back for a non-enum: nothing, it panics first.   *)
NotEnumTokens(name) == <<>>

Init ==
    /\ \/ \E n \in EnumIdents, k \in 0..MaxVariants :
            \E ids \in [1..k -> VariantIdents], ats \in [1..k -> AttrLists], fs \in [1..k -> FieldsOptions] :
               /\ Injective(ids)
               /\ derive_input = EnumInput(n, VariantList(ids, ats, fs))
       \/ derive_input \in NotEnumInputs
    /\ pc = "input"
    /\ tokens = <<>>
    /\ panic_message = <<>>
    /\ self = [variant |-> <<>>, vals |-> <<>>]
    /\ call_method = 0
    /\ call_args = <<>>
    /\ result = [tag |-> "NotCalled"]

expect_derive ==
    /\ pc = "input"
    /\ IF derive_input.data.kind = "Enum"
       THEN /\ tokens' = <<ImplBlock(derive_input.ident,
                                     VariantsLoop(derive_input.ident, derive_input.data.variants, <<>>))>>
            /\ panic_message' = <<>>
            /\ pc' = "generated"
       ELSE /\ tokens' = NotEnumTokens(derive_input.ident)
            /\ panic_message' = NotEnumMessage(derive_input.ident)
            /\ pc' = "panicked"
    /\ UNCHANGED <<derive_input, self, call_method, call_args, result>>

(* ------------------- the generated code, as compiled ------------------- *)

(* rustc accepts the impl block only if no two methods share a name, no   *)
(* pattern binds one identifier twice, no two parameters share a name and *)
(* every `if` of a match arm is followed by a condition.                  *)
MethodCompiles(m) ==
    /\ \A i, j \in 1..Len(m.pattern.binds) :
          i # j => m.pattern.binds[i].binding # m.pattern.binds[j].binding
    /\ \A i, j \in 1..Len(m.params) : i # j => m.params[i][1] # m.params[j][1]
    /\ m.pattern.has_if => m.pattern.guard # <<>>

Compiles(impl) ==
    /\ \A i, j \in 1..Len(impl.methods) :
          i # j => impl.methods[i].fn_name # impl.methods[j].fn_name
    /\ \A i \in 1..Len(impl.methods) : MethodCompiles(impl.methods[i])

(* The values of the enum: one per variant and per choice of field values. *)
SelfValues(variants) ==
    UNION { { [variant |-> variants[i].ident, vals |-> vals] :
                vals \in [1..Len(variants[i].fields.members) -> Values] } :
            i \in 1..Len(variants) }

VariantDecl(variants, ident) ==
    variants[CHOOSE i \in 1..Len(variants) : variants[i].ident = ident]

(* Position of the field a pattern names: by name in a braced pattern,    *)
(* by index in a tuple pattern.                                           *)
FieldIndex(decl, key) ==
    IF decl.fields.kind = "Named"
    THEN CHOOSE i \in 1..Len(decl.fields.members) : decl.fields.members[i].ident = key
    ELSE CHOOSE i \in 1..Len(decl.fields.members) : to_string(i - 1) = key

ParamValue(m, args, id) ==
    args[CHOOSE k \in 1..Len(m.params) : m.params[k][1] = id]

IsBound(m, id) ==
    \E i \in 1..Len(m.pattern.binds) : m.pattern.binds[i].binding = id

BoundValue(m, variants, v, id) ==
    LET b == m.pattern.binds[CHOOSE i \in 1..Len(m.pattern.binds) : m.pattern.binds[i].binding = id]
    IN  v.vals[FieldIndex(VariantDecl(variants, v.variant), b.field)]

(* Name resolution inside the first match arm and its guard: the pattern  *)
(* bindings are the innermost scope, the method parameters the outer one. *)
ArmLookup(m, variants, v, args, id) ==
    IF IsBound(m, id) THEN BoundValue(m, variants, v, id) ELSE ParamValue(m, args, id)

PatternMatches(m, v) == v.variant = m.pattern.path[2]

GuardHolds(m, variants, v, args) ==
    \A i \in 1..Len(m.pattern.guard) :
        ArmLookup(m, variants, v, args, m.pattern.guard[i].lhs)
          = ArmLookup(m, variants, v, args, m.pattern.guard[i].rhs)

(* `#new` sits in the `_` arm, where only the parameters are in scope.    *)
NewValue(m, args) ==
    [variant |-> m.new.path[2],
     vals |-> [i \in 1..Len(m.new.inits) |-> ParamValue(m, args, m.new.inits[i])]]

PanicMessage(expected, actual) ==
    <<ExpectedText, [debug |-> expected], ButGotText, [debug |-> actual]>>

(* One call of a generated method.  A parenthesised list of one           *)
(* expression is that expression, of none the unit value; `tuple` lists   *)
(* the components either way.                                             *)
Invoke(m, variants, v, args) ==
    IF PatternMatches(m, v) /\ GuardHolds(m, variants, v, args)
    THEN [tag |-> IF m.arm_some THEN "Some" ELSE "Return",
          tuple |-> [i \in 1..Len(m.arm_tuple) |-> ArmLookup(m, variants, v, args, m.arm_tuple[i])]]
    ELSE IF m.panics
         THEN [tag |-> "Panic", message |-> PanicMessage(NewValue(m, args), v)]
         ELSE [tag |-> "None"]

call_extractor ==
    /\ pc = "generated"
    /\ Compiles(tokens[1])
    /\ \E i \in 1..Len(tokens[1].methods) :
         \E v \in SelfValues(derive_input.data.variants) :
           \E args \in [1..Len(tokens[1].methods[i].params) -> Values] :
              /\ call_method' = i
              /\ self' = v
              /\ call_args' = args
              /\ result' = Invoke(tokens[1].methods[i], derive_input.data.variants, v, args)
    /\ pc' = "called"
    /\ UNCHANGED <<derive_input, tokens, panic_message>>

Next == expect_derive \/ call_extractor

Spec == Init /\ [][Next]_vars

(* ------------------------- properties checked -------------------------- *)

Generated == pc \in {"generated", "called"}

Called == pc = "called"

CalledMethod == tokens[1].methods[call_method]

(* The shape whose extractor was called: methods follow variant order.    *)
TargetVariant == derive_input.data.variants[call_method]

HasPanicMarker(variant) == PanicIdent \in { variant.attrs[i] : i \in 1..Len(variant.attrs) }

HasFields(variant) == variant.fields.kind \in {"Named", "Unnamed"}

ArgsEqualFields ==
    /\ self.variant = TargetVariant.ident
    /\ call_args = self.vals

SomeArgDiffers ==
    /\ self.variant = TargetVariant.ident
    /\ \E i \in 1..Len(call_args) : call_args[i] # self.vals[i]

Occurs(part, text) ==
    \E i \in 1..(Len(text) + 1) :
        /\ i + Len(part) - 1 <= Len(text)
        /\ SubSeq(text, i, i + Len(part) - 1) = part

(* C1: a non-fatal extractor of a shape with fields, called on a value of *)
(* that shape with the value's own field values, returns a present        *)
(* optional holding exactly those field values in declaration order.      *)
C1_ExactValuesReturnPresent ==
    (Called /\ ~HasPanicMarker(TargetVariant) /\ HasFields(TargetVariant) /\ ArgsEqualFields)
        => (result.tag = "Some" /\ result.tuple = self.vals)

(* C2: a non-fatal extractor called on another shape, or on its own shape *)
(* with at least one differing argument, returns the empty optional; it   *)
(* never halts.                                                           *)
C2_MismatchReturnsEmpty ==
    (Called /\ ~HasPanicMarker(TargetVariant))
        => /\ result.tag # "Panic"
           /\ (self.variant # TargetVariant.ident \/ SomeArgDiffers) => result.tag = "None"

(* C3: a fatal extractor returns the bare tuple of field values when the  *)
(* arguments equal the fields, and otherwise halts with a message that    *)
(* holds the shape built from the supplied values and the rendering of    *)
(* the actual value.                                                      *)
C3_FatalReturnsOrHalts ==
    (Called /\ HasPanicMarker(TargetVariant))
        => /\ ArgsEqualFields => (result.tag = "Return" /\ result.tuple = self.vals)
           /\ (self.variant # TargetVariant.ident \/ SomeArgDiffers)
                => /\ result.tag = "Panic"
                   /\ result.message[2] = [debug |-> [variant |-> TargetVariant.ident, vals |-> call_args]]
                   /\ result.message[4] = [debug |-> self]

(* C4: for a description that is not an enum, generation fails and hands  *)
(* back nothing: no impl block, no method, and nothing can be called.     *)
C4_NotEnumNoOutput ==
    (derive_input.data.kind # "Enum" /\ pc # "input")
        => (pc = "panicked" /\ tokens = <<>>)

C4_Witness ==
    /\ pc = "panicked"
    /\ derive_input.data.kind = "Struct"
    /\ derive_input.data.fields.kind = "Named"
    /\ Len(derive_input.data.fields.members) = 2

(* C5 as stated: the generation error names the offending type.           *)
C5_ErrorNamesType ==
    pc = "panicked" => Occurs(derive_input.ident, panic_message)

(* C5 amended: the generation error is one fixed text, the same for       *)
(* every offending type.                                                  *)
C5_ErrorIsFixedText ==
    pc = "panicked" => panic_message = NotEnumText

C5_Witness ==
    /\ pc = "panicked"
    /\ panic_message # <<>>
    /\ ~Occurs(derive_input.ident, panic_message)

(* C6: an enum with shapes s1..sk yields one impl block for the type with *)
(* exactly k methods, the i-th matching shape si and named expect_ plus   *)
(* the lowercased name of si, whatever the kind or the panic marker.      *)
C6_OneMethodPerShapeInOrder ==
    (derive_input.data.kind = "Enum" /\ pc # "input")
        => /\ Generated
           /\ Len(tokens) = 1
           /\ tokens[1].impl_for = derive_input.ident
           /\ Len(tokens[1].methods) = Len(derive_input.data.variants)
           /\ \A i \in 1..Len(derive_input.data.variants) :
                /\ tokens[1].methods[i].fn_name
                     = ExpectPrefix \o to_lowercase(derive_input.data.variants[i].ident)
                /\ tokens[1].methods[i].pattern.path
                     = <<derive_input.ident, derive_input.data.variants[i].ident>>
                /\ tokens[1].methods[i].pattern.kind = derive_input.data.variants[i].fields.kind
                /\ tokens[1].methods[i].panics = HasPanicMarker(derive_input.data.variants[i])

C6_Witness ==
    /\ pc = "generated"
    /\ Len(derive_input.data.variants) = 2
    /\ HasPanicMarker(derive_input.data.variants[1])
    /\ ~HasPanicMarker(derive_input.data.variants[2])
    /\ derive_input.data.variants[1].fields.kind = "Named"
    /\ derive_input.data.variants[2].fields.kind = "Unit"
    /\ derive_input.data.variants[1].ident # to_lowercase(derive_input.data.variants[1].ident)
    /\ Len(tokens[1].methods) = 2

(* C7: a Unit shape still gets a method, without parameters; on a value   *)
(* of that shape it yields Some(()) (non-fatal) or () (fatal), on any     *)
(* other shape None (non-fatal) or a halt (fatal).                        *)
C7_UnitShapeExtractor ==
    /\ Generated =>
          \A i \in 1..Len(derive_input.data.variants) :
              derive_input.data.variants[i].fields.kind = "Unit"
                 => (Len(tokens[1].methods) >= i /\ tokens[1].methods[i].params = <<>>)
    /\ (Called /\ TargetVariant.fields.kind = "Unit")
          => /\ call_args = <<>>
             /\ IF self.variant = TargetVariant.ident
                THEN IF HasPanicMarker(TargetVariant)
                     THEN result.tag = "Return" /\ result.tuple = <<>>
                     ELSE result.tag = "Some" /\ result.tuple = <<>>
                ELSE IF HasPanicMarker(TargetVariant)
                     THEN result.tag = "Panic"
                     ELSE result.tag = "None"

C7_Witness ==
    /\ Called
    /\ TargetVariant.fields.kind = "Unit"
    /\ HasPanicMarker(TargetVariant)
    /\ self.variant # TargetVariant.ident
    /\ result.tag = "Panic"

(* C8: in every generated method no pattern binding has the name of a     *)
(* parameter, so every guard comparison reads the caller's argument.      *)
C8_BindingsNeverShadowParams ==
    Generated =>
        \A i \in 1..Len(tokens[1].methods) :
            LET m == tokens[1].methods[i]
            IN  /\ \A b \in 1..Len(m.pattern.binds), p \in 1..Len(m.params) :
                      m.pattern.binds[b].binding # m.params[p][1]
                /\ \A g \in 1..Len(m.pattern.guard) : ~IsBound(m, m.pattern.guard[g].rhs)

(* C9 as stated: distinct shape names give distinct method names.         *)
C9_DistinctShapesDistinctMethods ==
    Generated =>
        \A i, j \in 1..Len(tokens[1].methods) :
            derive_input.data.variants[i].ident # derive_input.data.variants[j].ident
                => tokens[1].methods[i].fn_name # tokens[1].methods[j].fn_name

(* C9 amended: shape names that stay distinct once lowercased give        *)
(* distinct method names.                                                 *)
C9_DistinctLowercasedDistinctMethods ==
    Generated =>
        \A i, j \in 1..Len(tokens[1].methods) :
            to_lowercase(derive_input.data.variants[i].ident)
                  # to_lowercase(derive_input.data.variants[j].ident)
                => tokens[1].methods[i].fn_name # tokens[1].methods[j].fn_name

C9_Witness ==
    /\ pc = "generated"
    /\ Len(tokens[1].methods) = 2
    /\ to_lowercase(derive_input.data.variants[1].ident)
          # to_lowercase(derive_input.data.variants[2].ident)
    /\ derive_input.data.variants[1].ident # to_lowercase(derive_input.data.variants[1].ident)
    /\ tokens[1].methods[1].fn_name # tokens[1].methods[2].fn_name

(* C10: within one method the pattern bindings are pairwise distinct      *)
(* whenever the declared field names are (Named) or for any arity         *)
(* (Positional).                                                          *)
C10_BindingsPairwiseDistinct ==
    Generated =>
        \A i \in 1..Len(tokens[1].methods) :
            LET m == tokens[1].methods[i]
                fs == derive_input.data.variants[i].fields
            IN  (fs.kind = "Named" => Injective([k \in 1..Len(fs.members) |-> fs.members[k].ident]))
                   => /\ Len(m.pattern.binds) = Len(fs.members)
                      /\ Injective([k \in 1..Len(m.pattern.binds) |-> m.pattern.binds[k].binding])

====
